---------------------------- MODULE Spec2Model ----------------------------
(***************************************************************************)
(* Orbital trajectory simulator (src/main.py).                             *)
(*                                                                         *)
(* The program builds an initial state from (altitude, speed, angle),      *)
(* hands the equations of motion to an adaptive Runge-Kutta driver         *)
(* (scipy's solve_ivp) with an evaluation grid of 10000 times, and main    *)
(* plots the result when the driver reports success.                       *)
(*                                                                         *)
(* Reals are carried in fixed point, every product within 32 bits:         *)
(*   positions in m, velocities in mm/s, accelerations in mm/s^2, times    *)
(*   in s, angles in 1e-4 rad, cos/sin scaled by 1e4, radii inside the     *)
(*   acceleration in km.                                                   *)
(* The driver is an embedded Runge-Kutta pair with error control, step     *)
(* rejection and a smallest step, as RK45 is; the pair carried here is     *)
(* Euler/Heun (orders 1 and 2) and the dense output is the linear          *)
(* interpolant between the two ends of a step.                             *)
(***************************************************************************)
EXTENDS Integers, Sequences, FiniteSets, TLC

VARIABLES run,        \* the call of simulation_orbite under way and its solver
          run2,       \* a second call, used only by the two-run specification
          caller,     \* "none" | "main" | "api" | "pair": who invoked simulation_orbite
          main_pc,    \* position of main: "start" | "called" | "returned"
          stdout,     \* the lines main has printed
          visualised  \* number of calls of visualiser_orbite

vars == <<run, run2, caller, main_pc, stdout, visualised>>

---------------------------------------------------------------------------
(* Physical constants, src/main.py lines 6-8.                              *)
(* G is in 1e-15 m^3 kg^-1 s^-2 and M_terre in 1e21 kg, so that G*M_terre  *)
(* is GM in 1e6 m^3 s^-2.                                                  *)
G == 66743
M_terre == 5972
R_terre == 6371000

(* Number of points of the evaluation grid, np.linspace(0, duree, 10000).  *)
N_EVAL == 10000

(* Solver options of the solve_ivp call: the relative tolerance (rtol,     *)
(* carried as 1/TolDiv at the resolution of the fixed point), the first    *)
(* step and the smallest step the driver accepts before it gives up        *)
(* (one unit of time).                                                     *)
TolDiv == 10000
H0 == 1
HMin == 1

(* Scale of cos and sin, and of an angle in radians.                       *)
TrigScale == 10000

(* Input domains of the calls explored.                                    *)
Masses == {1000, 2000}
Altitudes == {0, 400000}
Vitesses == {0, 7800}
Angles == {0, 60, 90}
Durees == {86400}
ShortDurees == {1200}

---------------------------------------------------------------------------
(* Arithmetic helpers.                                                     *)
Abs(a) == IF a >= 0 THEN a ELSE -a
Max(a, b) == IF a >= b THEN a ELSE b
Min(a, b) == IF a <= b THEN a ELSE b

(* The only element of a singleton.  Only({e(v) : v \in {d}}) is e with v  *)
(* standing for the value of d, computed once.                             *)
Only(S) == CHOOSE v \in S : TRUE

(* Division rounding toward zero, as a float quotient cut to the grid.     *)
Quot(a, b) == IF a >= 0 THEN a \div b ELSE -((-a) \div b)

RECURSIVE Bisect(_, _, _)
Bisect(lo, hi, n) ==
    IF lo >= hi THEN lo
    ELSE Only({IF m * m <= n THEN Bisect(m, hi, n) ELSE Bisect(lo, m - 1, n) :
               m \in {(lo + hi + 1) \div 2}})

(* np.sqrt on the grid: the integer square root.                           *)
Sqrt(n) == Bisect(0, Min(n, 46340), n)

(* np.radians: degrees to 1e-4 rad.                                        *)
Radians(deg) == Quot(deg * 31416, 180)

(* np.cos and np.sin for |x| <= pi/2, by their series in Horner form.      *)
Cos(x) ==
    LET x2 == Quot(x * x, TrigScale)
        t4 == TrigScale - Quot(x2, 56)
        t3 == TrigScale - Quot(x2 * t4, 30 * TrigScale)
        t2 == TrigScale - Quot(x2 * t3, 12 * TrigScale)
    IN  TrigScale - Quot(x2 * t2, 2 * TrigScale)

Sin(x) ==
    LET x2 == Quot(x * x, TrigScale)
        t4 == TrigScale - Quot(x2, 72)
        t3 == TrigScale - Quot(x2 * t4, 42 * TrigScale)
        t2 == TrigScale - Quot(x2 * t3, 20 * TrigScale)
        t1 == TrigScale - Quot(x2 * t2, 6 * TrigScale)
    IN  Quot(x * t1, TrigScale)

---------------------------------------------------------------------------
(* equations_mouvement, src/main.py lines 11-20.                           *)

(* r = np.sqrt(x ** 2 + y_pos ** 2), in km.                                *)
Radius(y) ==
    LET xk == Quot(y[1], 1000)
        yk == Quot(y[2], 1000)
    IN  Sqrt(xk * xk + yk * yk)

(* r = 0 makes ax and ay the quotient 0/0: not a number.                   *)
NonFinite(y) == Radius(y) = 0

(* Sensitivity: line 19 with x in place of y_pos.                          *)
DerivativeCopiedLine(y, r, GM) ==
    IF r = 0 THEN <<y[3], y[4], "nan", "nan">>
    ELSE <<y[3], y[4],
           -Quot(Quot(Quot(GM, r) * 1000, r) * Quot(y[1], 1000), r),
           -Quot(Quot(Quot(GM, r) * 1000, r) * Quot(y[1], 1000), r)>>

(* Sensitivity: line 18 without its minus sign.                            *)
DerivativeLostSign(y, r, GM) ==
    IF r = 0 THEN <<y[3], y[4], "nan", "nan">>
    ELSE <<y[3], y[4],
           Quot(Quot(Quot(GM, r) * 1000, r) * Quot(y[1], 1000), r),
           -Quot(Quot(Quot(GM, r) * 1000, r) * Quot(y[2], 1000), r)>>

(* The derivative at y = <<x, y_pos, vx, vy>> once r is known:             *)
(* <<vx, vy, ax, ay>> with ax = -G*M*x / r**3 and ay = -G*M*y_pos / r**3.  *)
Derivative(y, r, GM) ==
    IF r = 0 THEN <<y[3], y[4], "nan", "nan">>
    ELSE <<y[3], y[4],
           -Quot(Quot(Quot(GM, r) * 1000, r) * Quot(y[1], 1000), r),
           -Quot(Quot(Quot(GM, r) * 1000, r) * Quot(y[2], 1000), r)>>

equations_mouvement(t, y, Gc, Mc) ==
    Only({Derivative(y, r, Gc * Mc) : r \in {Radius(y)}})

---------------------------------------------------------------------------
(* simulation_orbite, src/main.py lines 37-47: the initial conditions and  *)
(* the evaluation grid.                                                    *)

(* Sensitivity: lines 41-42 with cos and sin exchanged.                    *)
InitialConditionsSwapped(altitude, vitesse_initiale, angle_deg) ==
    LET angle_rad == Radians(angle_deg)
        x0 == R_terre + altitude
        y0 == 0
        vx0 == Quot(vitesse_initiale * Sin(angle_rad), 10)
        vy0 == Quot(vitesse_initiale * Cos(angle_rad), 10)
    IN  <<x0, y0, vx0, vy0>>

InitialConditions(altitude, vitesse_initiale, angle_deg) ==
    LET angle_rad == Radians(angle_deg)
        x0 == R_terre + altitude
        y0 == 0
        vx0 == Quot(vitesse_initiale * Cos(angle_rad), 10)
        vy0 == Quot(vitesse_initiale * Sin(angle_rad), 10)
    IN  <<x0, y0, vx0, vy0>>

(* t_eval[k] * (N_EVAL - 1), k = 0 .. N_EVAL - 1: np.linspace(0, duree,    *)
(* 10000) has t_eval[k] = k * duree / 9999.                                *)
TEvalNum(k, duree) == k * duree

(* Sensitivity: side='left', how many grid times are < t.                  *)
SearchSortedLeft(t, duree) ==
    IF duree = 0 \/ t = 0 THEN 0
    ELSE Min(N_EVAL, Quot(t * (N_EVAL - 1) - 1, duree) + 1)

(* np.searchsorted(t_eval, t, side='right'): how many grid times are <= t. *)
SearchSortedRight(t, duree) ==
    IF duree = 0 THEN N_EVAL
    ELSE Min(N_EVAL, Quot(t * (N_EVAL - 1), duree) + 1)

(* Sensitivity: the upper end of the grid taken as its last index.         *)
TEvalStartLastIndex(duree, empty_span_i) ==
    IF duree > 0 THEN 0 ELSE N_EVAL - 1

(* Where solve_ivp starts slicing t_eval: at 0 over a span tf > t0.  Over  *)
(* an empty span (duree = 0) the library either starts at 0 (and returns   *)
(* the whole grid) or takes the grid as a decreasing one and starts at its *)
(* upper end (and returns nothing); which one is the installed library's   *)
(* choice, empty_span_i.                                                   *)
EmptySpanStarts == {0, N_EVAL}

TEvalStart(duree, empty_span_i) == IF duree > 0 THEN 0 ELSE empty_span_i

NoSample == <<>>
Zero4 == <<0, 0, 0, 0>>

Idle ==
    [status |-> "idle", masse |-> 0, altitude |-> 0, vitesse_initiale |-> 0,
     angle_deg |-> 0, duree |-> 0, y_init |-> Zero4,
     t |-> 0, y |-> Zero4, h |-> 0, t_old |-> 0, y_old |-> Zero4,
     t_eval_i |-> 0, i_old |-> 0, n |-> 0,
     first |-> NoSample, prev |-> NoSample]

(* The call up to the entry of solve_ivp's loop.                           *)
(*   status   "integrating" | "succeeded" | "failed"                       *)
(*   t, y, h  the solver's time, state and proposed step                   *)
(*   t_old, y_old  the start of the last step taken                        *)
(*   t_eval_i, i_old  the slicing index into t_eval, now and before the    *)
(*            last pass: that pass appended the grid times i_old ..        *)
(*            t_eval_i - 1                                                 *)
(*   n        number of samples appended so far                            *)
(*   first, prev  the first sample, and the last one appended before the   *)
(*            last pass                                                    *)
simulation_orbite(masse, altitude, vitesse_initiale, angle_deg, duree, empty_span_i) ==
    [status |-> "integrating", masse |-> masse, altitude |-> altitude,
     vitesse_initiale |-> vitesse_initiale, angle_deg |-> angle_deg,
     duree |-> duree,
     y_init |-> InitialConditions(altitude, vitesse_initiale, angle_deg),
     t |-> 0, y |-> InitialConditions(altitude, vitesse_initiale, angle_deg),
     h |-> H0, t_old |-> 0,
     y_old |-> InitialConditions(altitude, vitesse_initiale, angle_deg),
     t_eval_i |-> TEvalStart(duree, empty_span_i),
     i_old |-> TEvalStart(duree, empty_span_i), n |-> 0,
     first |-> NoSample, prev |-> NoSample]

---------------------------------------------------------------------------
(* solve_ivp, called at src/main.py lines 50-51 with fun =                 *)
(* equations_mouvement and args = (G, M_terre).                            *)

(* One trial step of size h from y: the Euler predictor yp, the Heun       *)
(* corrector y_new, and the error estimate (their difference) against the  *)
(* tolerance, for the position pair and for the velocity pair.  A stage    *)
(* that is not a number makes the error norm not a number, and the trial   *)
(* is rejected.                                                            *)
Predictor(y, h, k1) ==
    <<y[1] + Quot(h * k1[1], 1000), y[2] + Quot(h * k1[2], 1000),
      y[3] + h * k1[3], y[4] + h * k1[4]>>

Corrector(y, h, k1, k2) ==
    <<y[1] + Quot(h * (k1[1] + k2[1]), 2000),
      y[2] + Quot(h * (k1[2] + k2[2]), 2000),
      y[3] + Quot(h * (k1[3] + k2[3]), 2),
      y[4] + Quot(h * (k1[4] + k2[4]), 2)>>

ErrPos(h, k1, k2) ==
    Max(Abs(Quot(h * (k2[1] - k1[1]), 2000)), Abs(Quot(h * (k2[2] - k1[2]), 2000)))

ErrVel(h, k1, k2) ==
    Max(Abs(Quot(h * (k2[3] - k1[3]), 2)), Abs(Quot(h * (k2[4] - k1[4]), 2)))

ScalePos(y, y_new) ==
    Quot(Max(Max(Abs(y[1]), Abs(y[2])), Max(Abs(y_new[1]), Abs(y_new[2]))), TolDiv)

ScaleVel(y, y_new) ==
    Quot(Max(Max(Abs(y[3]), Abs(y[4])), Max(Abs(y_new[3]), Abs(y_new[4]))), TolDiv)

Judge(y, y_new, err_pos, err_vel, sc_pos, sc_vel) ==
    IF NonFinite(y_new) THEN [ok |-> FALSE]
    ELSE [ok |-> err_pos <= sc_pos /\ err_vel <= sc_vel,
          grow |-> 4 * err_pos <= sc_pos /\ 4 * err_vel <= sc_vel,
          y_new |-> y_new]

Stage3(y, h, k1, k2) ==
    Only({Judge(y, y_new, ErrPos(h, k1, k2), ErrVel(h, k1, k2),
                ScalePos(y, y_new), ScaleVel(y, y_new)) :
          y_new \in {Corrector(y, h, k1, k2)}})

Stage2(y, h, k1, yp, Gc, Mc) ==
    IF NonFinite(yp) THEN [ok |-> FALSE]
    ELSE Only({Stage3(y, h, k1, k2) : k2 \in {equations_mouvement(0, yp, Gc, Mc)}})

rk_step(y, h, Gc, Mc) ==
    IF NonFinite(y) THEN [ok |-> FALSE]
    ELSE Only({Stage2(y, h, k1, Predictor(y, h, k1), Gc, Mc) :
               k1 \in {equations_mouvement(0, y, Gc, Mc)}})

(* The loop of one solver step: shrink the step while the trial is         *)
(* rejected, give up below the smallest step.  The result is the accepted  *)
(* end state with the size taken and the size proposed for the next step,  *)
(* or a failure.  A step never passes the end of the span (room).          *)
Accepted(trial, h, h_abs, rejected) ==
    [ok |-> TRUE, y_new |-> trial.y_new, h |-> h,
     h_next |-> IF trial.grow /\ ~rejected THEN 2 * h_abs ELSE h_abs]

RECURSIVE step_impl(_, _, _, _, _, _)
Trial(y, h_abs, room, rejected, Gc, Mc, trial) ==
    IF trial.ok THEN Accepted(trial, Min(h_abs, room), h_abs, rejected)
    ELSE step_impl(y, h_abs \div 2, room, TRUE, Gc, Mc)

step_impl(y, h_abs, room, rejected, Gc, Mc) ==
    IF h_abs < HMin THEN [ok |-> FALSE]
    ELSE Only({Trial(y, h_abs, room, rejected, Gc, Mc, trial) :
               trial \in {rk_step(y, Min(h_abs, room), Gc, Mc)}})

(* solver.step(): at the end of the span it only marks the solver          *)
(* finished, without moving.                                               *)
solver_step(r, Gc, Mc) ==
    IF r.t = r.duree THEN [ok |-> TRUE, y_new |-> r.y, h |-> 0, h_next |-> r.h]
    ELSE step_impl(r.y, r.h, r.duree - r.t, FALSE, Gc, Mc)

(* The dense output of the step from (t_old, y_old) to (t_old + h, y_new)  *)
(* at grid time k.                                                         *)
DenseOutput(k, duree, t_old, h, y_old, y_new) ==
    LET num == TEvalNum(k, duree) - t_old * (N_EVAL - 1)
        frac == Quot(num * 1000, h * (N_EVAL - 1))
    IN  <<y_old[1] + Quot((y_new[1] - y_old[1]) * frac, 1000),
          y_old[2] + Quot((y_new[2] - y_old[2]) * frac, 1000),
          y_old[3] + Quot((y_new[3] - y_old[3]) * frac, 1000),
          y_old[4] + Quot((y_new[4] - y_old[4]) * frac, 1000)>>

(* The sample at grid time k, one of those appended by the last pass; a    *)
(* step that did not move has a constant dense output.                     *)
Sample(r, k) ==
    IF r.t = r.t_old THEN r.y
    ELSE DenseOutput(k, r.duree, r.t_old, r.t - r.t_old, r.y_old, r.y)

(* The grid times appended by the last pass.                               *)
Batch(r) == r.i_old .. (r.t_eval_i - 1)

(* The last sample appended so far.                                        *)
LastSample(r) ==
    IF r.t_eval_i > r.i_old THEN Sample(r, r.t_eval_i - 1) ELSE r.prev

(* One pass of solve_ivp's loop: solver.step(); a failed step leaves the   *)
(* loop before anything is appended; otherwise the grid times the step     *)
(* has covered, t_eval[t_eval_i : t_eval_i_new], are evaluated on the      *)
(* dense output and appended.                                              *)
(* Sensitivity: a failed step answered by a restart of the step size.      *)
FailedRetry(r, last) ==
    [r EXCEPT !.h = H0, !.i_old = r.t_eval_i, !.prev = last]

Failed(r, last) ==
    [r EXCEPT !.status = "failed", !.i_old = r.t_eval_i, !.prev = last]

WithFirst(r, r1) ==
    [r1 EXCEPT !.first = IF r.n = 0 /\ r1.n > 0 THEN Sample(r1, r1.i_old)
                         ELSE r.first]

Appended(r, s, last, t_eval_i_new) ==
    Only({WithFirst(r, r1) :
          r1 \in {[r EXCEPT !.t = r.t + s.h, !.y = s.y_new, !.h = s.h_next,
                            !.t_old = r.t, !.y_old = r.y,
                            !.i_old = r.t_eval_i,
                            !.t_eval_i = Max(r.t_eval_i, t_eval_i_new),
                            !.n = r.n + Max(0, t_eval_i_new - r.t_eval_i),
                            !.prev = last,
                            !.status = IF r.t + s.h = r.duree
                                       THEN "succeeded" ELSE "integrating"]}})

AfterStep(r, s, last) ==
    IF s.ok THEN Appended(r, s, last, SearchSortedRight(r.t + s.h, r.duree))
    ELSE Failed(r, last)

solve_ivp(r, Gc, Mc) ==
    Only({AfterStep(r, s, LastSample(r)) : s \in {solver_step(r, Gc, Mc)}})

(* Sensitivity: the satellite's mass scaling the attracting mass.          *)
solve_ivp_masse(r) == solve_ivp(r, G, Quot(M_terre * r.masse, 1000))

(* The call of line 50: args = (G, M_terre).                               *)
solve_ivp_step(r) == solve_ivp(r, G, M_terre)

(* sol.success, and whether simulation_orbite has returned.                *)
Success(r) == r.status = "succeeded"
Returned(r) == r.status \in {"succeeded", "failed"}

---------------------------------------------------------------------------
(* main, src/main.py lines 82-101.                                         *)

Banner == "=== Simulateur de Trajectoires Orbitales ==="
EnCours == "Simulation en cours..."
Echec == "La simulation a echoue."
Terminee == "Simulation terminee. Affichage de la trajectoire."

(* Lines 83-94: the hardcoded parameters and the call, duree by default.   *)
MainCall ==
    /\ caller = "none"
    /\ caller' = "main"
    /\ main_pc' = "called"
    /\ stdout' = <<Banner, EnCours>>
    /\ run' = simulation_orbite(1000, 400000, 7800, 0, 86400, 0)
    /\ UNCHANGED <<run2, visualised>>

(* Sensitivity: lines 96-101 without the test of sol.success.              *)
MainCheckNoTest ==
    /\ caller = "main"
    /\ main_pc = "called"
    /\ Returned(run)
    /\ main_pc' = "returned"
    /\ stdout' = Append(stdout, Terminee)
    /\ visualised' = visualised + 1
    /\ UNCHANGED <<run, run2, caller>>

(* Lines 96-101: the success flag decides between the failure message and  *)
(* the plot.                                                               *)
MainCheck ==
    /\ caller = "main"
    /\ main_pc = "called"
    /\ Returned(run)
    /\ main_pc' = "returned"
    /\ IF ~Success(run)
       THEN /\ stdout' = Append(stdout, Echec)
            /\ UNCHANGED visualised
       ELSE /\ stdout' = Append(stdout, Terminee)
            /\ visualised' = visualised + 1
    /\ UNCHANGED <<run, run2, caller>>

(* A call of the entry point by another caller, over a span duree > 0.     *)
ApiCall ==
    /\ caller = "none"
    /\ \E m \in Masses, a \in Altitudes, v \in Vitesses, g \in Angles, d \in Durees :
          run' = simulation_orbite(m, a, v, g, d, 0)
    /\ caller' = "api"
    /\ UNCHANGED <<run2, main_pc, stdout, visualised>>

(* A call over a short span.                                               *)
ShortCall ==
    /\ caller = "none"
    /\ \E m \in Masses, a \in Altitudes, v \in Vitesses, g \in Angles,
          d \in ShortDurees :
          run' = simulation_orbite(m, a, v, g, d, 0)
    /\ caller' = "api"
    /\ UNCHANGED <<run2, main_pc, stdout, visualised>>

(* A call over the empty span, duree = 0.                                  *)
ZeroCall ==
    /\ caller = "none"
    /\ \E m \in Masses, a \in Altitudes, v \in Vitesses, g \in Angles,
          e \in EmptySpanStarts :
          run' = simulation_orbite(m, a, v, g, 0, e)
    /\ caller' = "api"
    /\ UNCHANGED <<run2, main_pc, stdout, visualised>>

(* One pass of the solver loop.                                            *)
Step ==
    /\ run.status = "integrating"
    /\ run' = solve_ivp_step(run)
    /\ UNCHANGED <<run2, caller, main_pc, stdout, visualised>>

(* Two calls that differ only in masse, and their solver loops side by     *)
(* side.                                                                   *)
PairCall ==
    /\ caller = "none"
    /\ \E m1 \in Masses, m2 \in Masses, a \in Altitudes, v \in Vitesses,
          g \in Angles, d \in Durees \cup {0}, e \in EmptySpanStarts :
          /\ m1 < m2
          /\ d > 0 => e = 0
          /\ run' = simulation_orbite(m1, a, v, g, d, e)
          /\ run2' = simulation_orbite(m2, a, v, g, d, e)
    /\ caller' = "pair"
    /\ UNCHANGED <<main_pc, stdout, visualised>>

PairStep ==
    /\ caller = "pair"
    /\ "integrating" \in {run.status, run2.status}
    /\ run' = IF run.status = "integrating" THEN solve_ivp_step(run) ELSE run
    /\ run2' = IF run2.status = "integrating" THEN solve_ivp_step(run2) ELSE run2
    /\ UNCHANGED <<caller, main_pc, stdout, visualised>>

Init ==
    /\ run = Idle
    /\ run2 = Idle
    /\ caller = "none"
    /\ main_pc = "start"
    /\ stdout = <<>>
    /\ visualised = 0

(* The program and direct calls of its entry point over a span > 0.        *)
Next == MainCall \/ ApiCall \/ Step \/ MainCheck
Spec == Init /\ [][Next]_vars

(* The program and direct calls over a short span, the solver loop and     *)
(* main being run to their end: nothing suspends the loop of solve_ivp.    *)
NextShort == MainCall \/ ShortCall \/ Step \/ MainCheck
FairSpec == Init /\ [][NextShort]_vars /\ WF_vars(Step) /\ WF_vars(MainCheck)

(* The same, with the calls over the empty span.                           *)
NextZero == MainCall \/ ApiCall \/ ZeroCall \/ Step \/ MainCheck
ZeroSpec == Init /\ [][NextZero]_vars

(* Pairs of calls that differ only in masse.                               *)
NextPair == PairCall \/ PairStep
PairSpec == Init /\ [][NextPair]_vars

---------------------------------------------------------------------------
(* Quantities the properties are stated in.                                *)

(* L = x*vy - y*vx, in km * m/s.                                           *)
AngularMomentum(s) ==
    Quot(s[1], 1000) * Quot(s[4], 1000) - Quot(s[2], 1000) * Quot(s[3], 1000)

(* x*ay - y*ax for the acceleration d = <<vx, vy, ax, ay>> at y, in        *)
(* km * mm/s^2.                                                            *)
Torque(y, d) == Quot(y[1], 1000) * d[4] - Quot(y[2], 1000) * d[3]

(* The component of the velocity along the position vector, x*vx + y*vy,   *)
(* in km * m/s.                                                            *)
RadialComponent(s) ==
    Quot(s[1], 1000) * Quot(s[3], 1000) + Quot(s[2], 1000) * Quot(s[4], 1000)

(* The sample before grid time k.                                          *)
Before(r, k) == IF k = r.i_old THEN r.prev ELSE Sample(r, k - 1)

Started(r) == r.status # "idle"

---------------------------------------------------------------------------
(* C1: main calls visualiser_orbite only after simulation_orbite has       *)
(* returned with success true, and at most once; when the flag is false    *)
(* main has printed exactly one failure message after its two status       *)
(* lines and has not called visualiser_orbite.                             *)
C1_VisualiseOnlyOnSuccess ==
    /\ visualised > 0 => (main_pc = "returned" /\ Success(run) /\ visualised = 1)
    /\ main_pc # "returned" => Len(stdout) <= 2
    /\ (main_pc = "returned" /\ ~Success(run)) =>
          (visualised = 0 /\ stdout = <<Banner, EnCours, Echec>>)

C1_Witness ==
    main_pc = "returned" /\ run.status = "failed" /\ stdout[3] = Echec

(* C2: the initial state is x0 = R_terre + altitude, y0 = 0,               *)
(* vx0 = speed*cos(angle), vy0 = speed*sin(angle); the first sample of a   *)
(* trajectory that has one is that state; for main's run it is             *)
(* (6771000 m, 0, 7800 m/s, 0).                                            *)
C2_InitialState ==
    Started(run) =>
       /\ run.y_init[1] = R_terre + run.altitude
       /\ run.y_init[2] = 0
       /\ run.y_init[3] = Quot(run.vitesse_initiale * Cos(Radians(run.angle_deg)), 10)
       /\ run.y_init[4] = Quot(run.vitesse_initiale * Sin(Radians(run.angle_deg)), 10)
       /\ run.n > 0 => run.first = run.y_init
       /\ (caller = "main" /\ run.n > 0) => run.first = <<6771000, 0, 7800 * 1000, 0>>

C2_Witness ==
    caller = "main" /\ run.n > 0 /\ run.first = <<6771000, 0, 7800000, 0>>

(* C3: for angle_deg = 0 the initial velocity has no component along the   *)
(* initial position vector: x0*vx0 + y0*vy0 = 0.                           *)
C3_ZeroAngleIsTangential ==
    (Started(run) /\ run.angle_deg = 0) => RadialComponent(run.y_init) = 0

(* C4: main's run succeeds and r stays within a few percent (5 %) of       *)
(* 6771 km in every state and every sample.                                *)
C4_NearCircular ==
    caller = "main" =>
       /\ run.status # "failed"
       /\ 100 * Radius(run.y) <= 105 * 6771
       /\ 100 * Radius(run.y) >= 95 * 6771
       /\ \A k \in Batch(run) :
             /\ 100 * Radius(Sample(run, k)) <= 105 * 6771
             /\ 100 * Radius(Sample(run, k)) >= 95 * 6771

(* C5 as stated: every returned result holds exactly 10000 samples,        *)
(* whatever its success flag.                                              *)
C5_AlwaysTenThousand == Returned(run) => run.n = N_EVAL

(* C5 amended: over a span duree > 0, a result with success true holds     *)
(* exactly 10000 samples, at the grid times k*duree/9999 from 0 to duree,  *)
(* the last one being the final state; a result with success false holds   *)
(* fewer, those of the grid times up to the last completed step; each      *)
(* pass appends exactly the grid times in [t_old, t] not yet appended.     *)
C5_SampleCount ==
    (Started(run) /\ run.duree > 0) =>
       /\ run.n = run.t_eval_i
       /\ \A k \in Batch(run) :
             /\ run.t_old * (N_EVAL - 1) <= TEvalNum(k, run.duree)
             /\ TEvalNum(k, run.duree) <= run.t * (N_EVAL - 1)
       /\ (run.n < N_EVAL /\ run.status # "failed" /\ run.n > 0) =>
             TEvalNum(run.n, run.duree) > run.t * (N_EVAL - 1)
       /\ Success(run) =>
             /\ run.n = N_EVAL
             /\ run.t = run.duree
             /\ TEvalNum(N_EVAL - 1, run.duree) = run.duree * (N_EVAL - 1)
             /\ LastSample(run) = run.y
             /\ run.first = run.y_init
       /\ run.status = "failed" =>
             /\ run.n < N_EVAL
             /\ run.t < run.duree
             /\ TEvalNum(run.n, run.duree) > run.t * (N_EVAL - 1)

C5_Witness == Success(run) /\ run.duree > 0 /\ run.n = N_EVAL

(* C6: with altitude > 0 and speed 0 the fall is radial: y = 0 and vy = 0  *)
(* in every state of the integration and in every sample, and x decreases  *)
(* strictly from each sample to the next.                                  *)
C6_RadialFall ==
    (Started(run) /\ run.altitude > 0 /\ run.vitesse_initiale = 0) =>
       /\ run.y[2] = 0
       /\ run.y[4] = 0
       /\ \A k \in Batch(run) :
             /\ Sample(run, k)[2] = 0
             /\ Sample(run, k)[4] = 0
             /\ Before(run, k) # NoSample =>
                   Before(run, k)[1] > Sample(run, k)[1]

C6_Witness ==
    /\ run.altitude > 0 /\ run.vitesse_initiale = 0
    /\ run.status = "failed" /\ run.n > 100
    /\ run.prev[1] < run.first[1]

(* C7: two calls that differ only in masse are in the same solver state    *)
(* after every pass, so return the same samples and the same success flag. *)
C7_MassIndependent == run2 = [run EXCEPT !.masse = run2.masse]

C7_Witness ==
    /\ run.masse # run2.masse
    /\ Success(run) /\ Success(run2)
    /\ run.n = N_EVAL /\ run.duree > 0

(* C8: the acceleration is central, x*ay - y*ax = 0 up to the rounding of  *)
(* ax and ay, at every state with r > 0; and L = x*vy - y*vx of every      *)
(* sample is that of the initial state within 0.2 %.                       *)
C8_AngularMomentum ==
    (Started(run) /\ ~NonFinite(run.y)) =>
       /\ Abs(Torque(run.y, equations_mouvement(0, run.y, G, M_terre)))
             <= Abs(Quot(run.y[1], 1000)) + Abs(Quot(run.y[2], 1000))
       /\ \A k \in Batch(run) :
             500 * Abs(AngularMomentum(Sample(run, k)) - AngularMomentum(run.y_init))
                <= Abs(AngularMomentum(run.y_init))

C8_Witness ==
    Success(run) /\ run.n = N_EVAL /\ AngularMomentum(run.y_init) > 0
       /\ run.y[2] # 0

C10_OneCompleteRun ==
    /\ [](run.status = "integrating" => <>Returned(run))
    /\ [][/\ run.status = "idle" => run'.status \in {"idle", "integrating"}
          /\ run.status = "failed" => run'.status = "failed"
          /\ run.status = "succeeded" => run'.status = "succeeded"]_vars

C10_Witness == run.status = "failed" /\ run.t > 0 /\ run.n > 0

=============================================================================
